---- MODULE Spec2Model ----
(***************************************************************************)
(* A model of axon/client.py: the command-line tool that reconciles the    *)
(* cloud resources Axon needs (cluster, task definition, log group,        *)
(* security groups, IAM roles), starts and stops a task, resolves its      *)
(* public IP and moves model files to and from object storage.             *)
(*                                                                         *)
(* The provider account is the shared state.  Every invocation of the tool *)
(* is a process with a stack of code positions; one action is one request  *)
(* to the provider (or to the IP lookup service) together with the local   *)
(* code that follows it up to the next request.  No function of the source *)
(* catches an exception, so a raise ends the invocation.                   *)
(***************************************************************************)
EXTENDS Integers, Sequences, FiniteSets, TLC

VARIABLES
    clusters,        \* ECS: the clusters of the account, a list of cluster names
    taskDefs,        \* ECS: the registered task definitions, [family, revision]
    logGroups,       \* CloudWatch: the log groups, a list of names
    securityGroups,  \* EC2: the security groups, GroupId = position in the list
    roles,           \* IAM: the roles, Arn = position in the list
    subnets,         \* EC2: the subnets, a list of SubnetIds
    tasks,           \* ECS: the tasks of the account, taskArn = position in the list
    nics,            \* EC2: the network interfaces, a list of interface records
    bucket,          \* S3: the objects of the bucket, key -> body
    files,           \* the local file system, path -> content
    ips,             \* what the public-IP lookup can answer for this caller
    faults,          \* the requests that can fail with a provider error
    cmds,            \* the operations an invocation can be started with
    procs            \* the invocations of the tool

provider == <<clusters, taskDefs, logGroups, securityGroups, roles, subnets, tasks, nics, bucket, files>>
environment == <<ips, faults, cmds>>
vars == <<clusters, taskDefs, logGroups, securityGroups, roles, subnets, tasks, nics, bucket, files,
          ips, faults, cmds, procs>>

----------------------------------------------------------------------------
(* Bounds of the model.                                                    *)

\* Most same-named resources an initial account holds.
MaxDup == 2
\* Most commands one process runs, one after the other.
MaxRuns == 2
\* Most rules in an initial ingress or egress rule list.
MaxRules == 1
\* Most tasks a run_task response holds.
MaxRunTasks == 2
MaxAttach == 2

----------------------------------------------------------------------------
(* Fixed names and payloads of the source.                                 *)

\* The command-line arguments cluster-name and task-family, as characters,
\* and a second family that shares the prefix.
ClusterName == "axon-cluster"
TaskFamily == <<"a", "x">>
OtherFamily == <<"a", "x", "b">>
Families == {TaskFamily, OtherFamily}

EcsSgName == "axon-ecs-autogenerated"
Ec2SgName == "axon-ec2-autogenerated"
TaskRoleName == "axon-ecs-autogenerated-task-role"
Ec2RoleName == "axon-ec2-role-manual"

TaskRolePolicies ==
    << "service-role/AmazonECSTaskExecutionRolePolicy", "AmazonEC2FullAccess",
       "AmazonS3FullAccess", "AmazonDynamoDBFullAccess" >>
Ec2RolePolicies == << "AmazonS3FullAccess" >>

Any4 == [addr |-> "0.0.0.0", mask |-> 0]
Any6 == [addr |-> "::", mask |-> 0]

all_perm ==
    [FromPort |-> -1, IpProtocol |-> "-1", IpRanges |-> {Any4},
     Ipv6Ranges |-> {Any6}, ToPort |-> -1]

all_http_perm ==
    [FromPort |-> 80, IpProtocol |-> "tcp", IpRanges |-> {Any4},
     Ipv6Ranges |-> {Any6}, ToPort |-> 80]

\* "{}/32".format(ip)
Cidr32(ip) == [addr |-> ip, mask |-> 32]

axon_tcp_perm(ip) ==
    [FromPort |-> 8080, IpProtocol |-> "tcp", IpRanges |-> {Cidr32(ip)},
     Ipv6Ranges |-> {}, ToPort |-> 8080]

\* The egress rule the provider gives a new security group.
default_egress ==
    [FromPort |-> -1, IpProtocol |-> "-1", IpRanges |-> {Any4},
     Ipv6Ranges |-> {}, ToPort |-> -1]

\* A rule of somebody else (ssh from anywhere).
ssh_perm ==
    [FromPort |-> 22, IpProtocol |-> "tcp", IpRanges |-> {Any4},
     Ipv6Ranges |-> {}, ToPort |-> 22]

CallerIps == {"198.51.100.7", "203.0.113.9"}

RuleUniverse ==
    {all_perm, all_http_perm, default_egress, ssh_perm} \cup
    {axon_tcp_perm(ip) : ip \in CallerIps}

----------------------------------------------------------------------------
(* Strings as lists of characters: ARNs and log group names.               *)

RECURSIVE LastIndexOf(_, _, _)
\* The last position <= i of character c in s, 0 if there is none.
LastIndexOf(s, c, i) ==
    IF i = 0 THEN 0
    ELSE IF s[i] = c THEN i
    ELSE LastIndexOf(s, c, i - 1)

RECURSIVE FirstIndexOf(_, _, _)
\* The first position >= i of character c in s, Len(s) + 1 if there is none.
FirstIndexOf(s, c, i) ==
    IF i > Len(s) THEN Len(s) + 1
    ELSE IF s[i] = c THEN i
    ELSE FirstIndexOf(s, c, i + 1)

\* s.split(c)[-1]
SplitLast(s, c) == SubSeq(s, LastIndexOf(s, c, Len(s)) + 1, Len(s))

\* s.split(c)[0]
SplitFirst(s, c) == SubSeq(s, 1, FirstIndexOf(s, c, 1) - 1)

StartsWith(s, prefix) ==
    /\ Len(prefix) <= Len(s)
    /\ SubSeq(s, 1, Len(prefix)) = prefix

Digits == << "0", "1", "2", "3", "4", "5", "6", "7", "8", "9" >>

\* The ARN of a task definition: "a:td/<family>:<revision>".
TaskDefArn(td) ==
    << "a", ":", "t", "d", "/" >> \o td.family \o << ":", Digits[td.revision + 1] >>

\* "/ecs/{}".format(task_family)
LogGroupName(family) == << "/", "e", "c", "s", "/" >> \o family

----------------------------------------------------------------------------
(* The provider's answers.                                                 *)

\* describe_clusters(clusters=[name])["clusters"]
DescribeClusters(name) == SelectSeq(clusters, LAMBDA c : c = name)

\* describe_log_groups(logGroupNamePrefix=prefix)["logGroups"]
DescribeLogGroups(prefix) == SelectSeq(logGroups, LAMBDA g : StartsWith(g, prefix))

\* describe_security_groups(Filters=[group-name = name])["SecurityGroups"]
DescribeSecurityGroups(name) ==
    SelectSeq(securityGroups, LAMBDA g : g.GroupName = name)

\* list_roles(PathPrefix="/")["Roles"]
ListRoles == roles

FamilyRank(f) == Len(f)

\* td1 comes before td2 in a listing sorted DESC (by family, then revision).
Before(td1, td2) ==
    \/ FamilyRank(td1.family) > FamilyRank(td2.family)
    \/ /\ td1.family = td2.family
       /\ td1.revision > td2.revision

RECURSIVE SortDesc(_)
SortDesc(S) ==
    IF S = {} THEN << >>
    ELSE LET first == CHOOSE td \in S : \A o \in S \ {td} : Before(td, o)
         IN  << first >> \o SortDesc(S \ {first})

\* list_task_definitions(familyPrefix=prefix, sort="DESC")["taskDefinitionArns"]
ListTaskDefinitions(prefix) ==
    LET listed == SortDesc({td \in taskDefs : StartsWith(td.family, prefix)})
    IN  [i \in 1..Len(listed) |-> TaskDefArn(listed[i])]

\* The revision the provider gives the next registration of a family.
NextRevision(family) ==
    LET revs == {td.revision : td \in {t \in taskDefs : t.family = family}}
    IN  IF revs = {} THEN 1 ELSE 1 + (CHOOSE r \in revs : \A o \in revs : o <= r)

----------------------------------------------------------------------------
(* Invocations.                                                            *)

NoData == [loaded |-> FALSE, ip_permissions |-> {}, ip_permissions_egress |-> {}]

IdleProc ==
    [ status    |-> "idle",   \* idle, run, done, failed
      err       |-> "",       \* the exception that ended the invocation
      cmd       |-> "",
      runs      |-> 0,
      stack     |-> << >>,    \* code positions, the current one first
      variant   |-> "",       \* the security group being ensured: ecs or ec2
      sg_id     |-> 0,
      data      |-> NoData,   \* sg.meta.data, the SecurityGroup resource's cache
      ip        |-> "",
      role_arn  |-> 0,
      attach_i  |-> 0,
      def_arn   |-> << >>,
      subnet_id |-> "",
      task_arn  |-> 0,
      revision  |-> 0,        \* --revision, 0 for None
      eni       |-> "",
      path      |-> << >>,    \* local-file-path
      stop_after |-> FALSE,
      log       |-> << >> ]   \* history: the requests issued and the returns

Top(p) == IF procs[p].stack = << >> THEN "" ELSE Head(procs[p].stack)

At(p, label) ==
    /\ procs[p].status = "run"
    /\ Top(p) = label

\* History entries: a command started, a request issued (n: what the history
\* counts for it), a function returned (val: what it returned), an exception
\* was raised, the invocation ended.
NoVal == << >>
Start(cmd, val) == [ev |-> "cmd", op |-> cmd, arg |-> "", n |-> 0, val |-> val]
ReqVal(op, arg, n, val) == [ev |-> "req", op |-> op, arg |-> arg, n |-> n, val |-> val]
Req(op, arg, n) == ReqVal(op, arg, n, NoVal)
Call(fn) == [ev |-> "call", op |-> fn, arg |-> "", n |-> 0, val |-> NoVal]
RetVal(fn, val) == [ev |-> "ret", op |-> fn, arg |-> "", n |-> 0, val |-> val]
Ret(fn) == RetVal(fn, NoVal)
Raised(e) == [ev |-> "raise", op |-> e, arg |-> "", n |-> 0, val |-> NoVal]
Exit(how) == [ev |-> "exit", op |-> how, arg |-> "", n |-> 0, val |-> NoVal]

Logged(pr, e) == [pr EXCEPT !.log = Append(@, e)]

Goto(pr, label) == [pr EXCEPT !.stack = << label >> \o Tail(@)]

\* Replace the current position by the positions in labels.
Run(pr, labels) == [pr EXCEPT !.stack = labels \o Tail(@)]

\* The current function returns; the invocation ends when nothing is left.
Return(pr) ==
    IF Len(pr.stack) = 1
    THEN Logged([pr EXCEPT !.stack = << >>, !.status = "done"], Exit("ok"))
    ELSE [pr EXCEPT !.stack = Tail(@)]

ReturnFrom(pr, fn) == Return(Logged(pr, Ret(fn)))

ReturnValFrom(pr, fn, val) == Return(Logged(pr, RetVal(fn, val)))

\* An uncaught exception ends the invocation.
Raise(pr, e) ==
    Logged(Logged([pr EXCEPT !.stack = << >>, !.status = "failed", !.err = e],
                  Raised(e)),
           Exit(e))

Set(p, pr) == procs' = [procs EXCEPT ![p] = pr]

----------------------------------------------------------------------------
(* History only: how many resources of the account bear exactly a name.    *)

Count(seq, Test(_)) == Len(SelectSeq(seq, Test))

ClustersNamed(name) == Count(clusters, LAMBDA c : c = name)
LogGroupsNamed(name) == Count(logGroups, LAMBDA g : g = name)
SecurityGroupsNamed(name) == Count(securityGroups, LAMBDA g : g.GroupName = name)
RolesNamed(name) == Count(roles, LAMBDA r : r.RoleName = name)
TaskDefsOf(family) == {td \in taskDefs : td.family = family}

----------------------------------------------------------------------------
(* ensure_cluster                                                          *)

\* MatchingClusters, were it to compare the cluster's ARN with the name.
MatchingClusters_arn(found, cluster_name) ==
    SelectSeq(found, LAMBDA it : << "arn", it >> = cluster_name)

\* [it for it in clusters if it["clusterName"] == cluster_name]
MatchingClusters(found, cluster_name) ==
    SelectSeq(found, LAMBDA it : it = cluster_name)

ensure_cluster(p) ==
    /\ At(p, "ensure_cluster")
    /\ LET found == DescribeClusters(ClusterName)
           pr == Logged(procs[p],
                        Req("describe_clusters", ClusterName, ClustersNamed(ClusterName)))
       IN  IF Len(MatchingClusters(found, ClusterName)) = 0
           THEN Set(p, Goto(pr, "create_cluster"))
           ELSE Set(p, ReturnFrom(pr, "ensure_cluster"))
    /\ UNCHANGED <<provider, environment>>

create_cluster(p) ==
    /\ At(p, "create_cluster")
    /\ clusters' = Append(clusters, ClusterName)
    /\ Set(p, ReturnFrom(Logged(procs[p], Req("create_cluster", ClusterName, 0)),
                         "ensure_cluster"))
    /\ UNCHANGED <<taskDefs, logGroups, securityGroups, roles, subnets, tasks, nics, bucket, files,
                   environment>>

----------------------------------------------------------------------------
(* ensure_log_group                                                        *)

\* group_name in [it["logGroupName"] for it in log_groups]
LogGroupExists(log_groups, group_name) ==
    \E i \in 1..Len(log_groups) : log_groups[i] = group_name

ensure_log_group(p) ==
    /\ At(p, "ensure_log_group")
    /\ LET group_name == LogGroupName(TaskFamily)
           log_groups == DescribeLogGroups(group_name)
           pr == Logged(procs[p],
                        Req("describe_log_groups", "/ecs/family",
                            LogGroupsNamed(group_name)))
       IN  IF LogGroupExists(log_groups, group_name)
           THEN Set(p, ReturnFrom(pr, "ensure_log_group"))
           ELSE Set(p, Goto(pr, "create_log_group"))
    /\ UNCHANGED <<provider, environment>>

create_log_group(p) ==
    /\ At(p, "create_log_group")
    /\ logGroups' = Append(logGroups, LogGroupName(TaskFamily))
    /\ Set(p, ReturnFrom(Logged(procs[p], Req("create_log_group", "/ecs/family", 0)),
                         "ensure_log_group"))
    /\ UNCHANGED <<clusters, taskDefs, securityGroups, roles, subnets, tasks, nics, bucket, files,
                   environment>>

----------------------------------------------------------------------------
(* ensure_role, ensure_task_role, ensure_ec2_role                          *)

\* [it for it in roles if it["RoleName"] == role_name]
MatchingRoles(rs, role_name) == SelectSeq(rs, LAMBDA it : it.RoleName = role_name)

\* ensure_role, were it to take the first of several matching roles.
ensure_role_first(rs, role_name) ==
    LET matching_roles == MatchingRoles(rs, role_name)
    IN  IF Len(matching_roles) >= 1
        THEN [kind |-> "arn", arn |-> matching_roles[1].Arn]
        ELSE [kind |-> "none", arn |-> 0]

\* What ensure_role does with the listing: the Arn, None, or a RuntimeError.
ensure_role(rs, role_name) ==
    LET matching_roles == MatchingRoles(rs, role_name)
    IN  IF Len(matching_roles) = 1
        THEN [kind |-> "arn", arn |-> matching_roles[1].Arn]
        ELSE IF Len(matching_roles) > 1
        THEN [kind |-> "raise", arn |-> 0]
        ELSE [kind |-> "none", arn |-> 0]

MultipleRoles == "RuntimeError: Found multiple matching roles"

EnsureRoleAt(p, fn, role_name, create_label) ==
    /\ At(p, fn)
    /\ LET res == ensure_role(ListRoles, role_name)
           pr == Logged(procs[p], Req("list_roles", role_name, RolesNamed(role_name)))
       IN  IF res.kind = "arn"
           THEN Set(p, ReturnValFrom([pr EXCEPT !.role_arn = res.arn], fn, res.arn))
           ELSE IF res.kind = "raise"
           THEN Set(p, Raise(pr, MultipleRoles))
           ELSE Set(p, Goto(pr, create_label))
    /\ UNCHANGED <<provider, environment>>

CreateRoleAt(p, label, role_name, attach_label) ==
    /\ At(p, label)
    /\ LET arn == Len(roles) + 1
       IN  /\ roles' = Append(roles, [RoleName |-> role_name, Arn |-> arn,
                                      policies |-> {}])
           /\ Set(p, Goto(Logged([procs[p] EXCEPT !.role_arn = arn, !.attach_i = 1],
                                 Req("create_role", role_name, 0)),
                          attach_label))
    /\ UNCHANGED <<clusters, taskDefs, logGroups, securityGroups, subnets, tasks, nics, bucket, files,
                   environment>>

AttachPolicyAt(p, label, fn, role_name, policies) ==
    /\ At(p, label)
    /\ LET i == procs[p].attach_i
           pr == Logged(procs[p], Req("attach_role_policy", policies[i], 0))
       IN  /\ roles' = [k \in 1..Len(roles) |->
                          IF roles[k].RoleName = role_name
                          THEN [roles[k] EXCEPT !.policies = @ \cup {policies[i]}]
                          ELSE roles[k]]
           /\ IF i < Len(policies)
              THEN Set(p, [pr EXCEPT !.attach_i = i + 1])
              ELSE Set(p, ReturnValFrom(pr, fn, pr.role_arn))
    /\ UNCHANGED <<clusters, taskDefs, logGroups, securityGroups, subnets, tasks, nics, bucket, files,
                   environment>>

ensure_task_role(p) ==
    EnsureRoleAt(p, "ensure_task_role", TaskRoleName, "create_task_role")

create_task_role(p) ==
    CreateRoleAt(p, "create_task_role", TaskRoleName, "attach_task_role_policy")

attach_task_role_policy(p) ==
    AttachPolicyAt(p, "attach_task_role_policy", "ensure_task_role", TaskRoleName,
                   TaskRolePolicies)

ensure_ec2_role(p) ==
    EnsureRoleAt(p, "ensure_ec2_role", Ec2RoleName, "create_ec2_role")

create_ec2_role(p) ==
    CreateRoleAt(p, "create_ec2_role", Ec2RoleName, "attach_ec2_role_policy")

attach_ec2_role_policy(p) ==
    AttachPolicyAt(p, "attach_ec2_role_policy", "ensure_ec2_role", Ec2RoleName,
                   Ec2RolePolicies)

----------------------------------------------------------------------------
(* ensure_task                                                             *)

\* it.split("/")[-1].split(":")[0]
FamilyOfArn(it) == SplitFirst(SplitLast(it, "/"), ":")

\* MatchingArns, were it to trust the provider's familyPrefix filter.
MatchingArns_prefix(def_arns, task_family) ==
    SelectSeq(def_arns, LAMBDA it : StartsWith(FamilyOfArn(it), task_family))

\* [it for it in def_arns if it.split("/")[-1].split(":")[0] == task_family]
MatchingArns(def_arns, task_family) ==
    SelectSeq(def_arns, LAMBDA it : FamilyOfArn(it) = task_family)

\* ensure_task, were the log group ensured whether or not a definition exists.
ensure_task_logs(p) ==
    /\ At(p, "ensure_task")
    /\ Set(p, Run(Logged(procs[p],
                         Req("list_task_definitions", "family",
                             Cardinality(TaskDefsOf(TaskFamily)))),
                  IF Len(MatchingArns(ListTaskDefinitions(TaskFamily), TaskFamily)) # 0
                  THEN << "ensure_log_group" >>
                  ELSE << "ensure_log_group", "ensure_task_role",
                          "register_task_definition" >>))
    /\ UNCHANGED <<provider, environment>>

ensure_task(p) ==
    /\ At(p, "ensure_task")
    /\ LET def_arns == ListTaskDefinitions(TaskFamily)
           matching_arns == MatchingArns(def_arns, TaskFamily)
           pr == Logged(procs[p],
                        Req("list_task_definitions", "family",
                            Cardinality(TaskDefsOf(TaskFamily))))
       IN  IF Len(matching_arns) # 0
           THEN Set(p, ReturnValFrom([pr EXCEPT !.def_arn = matching_arns[1]],
                                     "ensure_task", matching_arns[1]))
           ELSE Set(p, Run(pr, << "ensure_log_group", "ensure_task_role",
                                  "register_task_definition" >>))
    /\ UNCHANGED <<provider, environment>>

register_task_definition(p) ==
    /\ At(p, "register_task_definition")
    /\ LET td == [family |-> TaskFamily, revision |-> NextRevision(TaskFamily),
                  taskRoleArn |-> procs[p].role_arn, cpu |-> "2048",
                  memory |-> "4096"]
       IN  /\ taskDefs' = taskDefs \cup {td}
           /\ Set(p, ReturnValFrom(Logged([procs[p] EXCEPT !.def_arn = TaskDefArn(td)],
                                          Req("register_task_definition", "family",
                                              td.revision)),
                                   "ensure_task", TaskDefArn(td)))
    /\ UNCHANGED <<clusters, logGroups, securityGroups, roles, subnets, tasks, nics, bucket, files,
                   environment>>

----------------------------------------------------------------------------
(* get_single_security_group, ensure_ecs_security_group,                   *)
(* ensure_ec2_security_group                                               *)

SgName(variant) == IF variant = "ecs" THEN EcsSgName ELSE Ec2SgName

\* The matching groups, were only the first one kept.
MatchingSgs_first(security_groups, sg_name) ==
    LET sgs == SelectSeq(security_groups, LAMBDA it : it.GroupName = sg_name)
    IN  IF Len(sgs) > 1 THEN << sgs[1] >> ELSE sgs

\* [it for it in security_groups if it["GroupName"] == sg_name]
MatchingSgs(security_groups, sg_name) ==
    SelectSeq(security_groups, LAMBDA it : it.GroupName = sg_name)

MultipleSgs == "RuntimeError: Matched multiple security groups"

get_single_security_group(p, fn, variant) ==
    /\ At(p, fn)
    /\ LET sg_name == SgName(variant)
           sgs == MatchingSgs(DescribeSecurityGroups(sg_name), sg_name)
           pr == Logged([procs[p] EXCEPT !.variant = variant, !.data = NoData],
                        Req("describe_security_groups", sg_name,
                            SecurityGroupsNamed(sg_name)))
       IN  IF Len(sgs) > 1
           THEN Set(p, Raise(pr, MultipleSgs))
           ELSE IF Len(sgs) = 1
           THEN Set(p, Goto(Logged([pr EXCEPT !.sg_id = sgs[1].GroupId],
                                   RetVal("get_single_security_group",
                                          sgs[1].GroupId)),
                            "revoke_all_perms"))
           ELSE Set(p, Goto(pr, "create_security_group"))
    /\ UNCHANGED <<provider, environment>>

ensure_ecs_security_group(p) ==
    get_single_security_group(p, "ensure_ecs_security_group", "ecs")

ensure_ec2_security_group(p) ==
    get_single_security_group(p, "ensure_ec2_security_group", "ec2")

\* The provider gives a new group no ingress rule and its default egress rule.
create_security_group(p) ==
    /\ At(p, "create_security_group")
    /\ LET id == Len(securityGroups) + 1
           sg_name == SgName(procs[p].variant)
       IN  /\ securityGroups' =
                 Append(securityGroups,
                        [GroupId |-> id, GroupName |-> sg_name,
                         IpPermissions |-> {},
                         IpPermissionsEgress |-> {default_egress}])
           /\ Set(p, Goto(Logged(Logged([procs[p] EXCEPT !.sg_id = id],
                                        Req("create_security_group", sg_name, id)),
                                 RetVal("get_single_security_group", id)),
                          "revoke_all_perms"))
    /\ UNCHANGED <<clusters, taskDefs, logGroups, roles, subnets, tasks, nics, bucket, files, environment>>

----------------------------------------------------------------------------
(* revoke_all_perms, ensure_ecs_gress, ensure_ec2_gress                    *)
(*                                                                         *)
(* sg is a boto3 resource: reading an attribute of it loads the group from *)
(* the provider unless the data is cached, and every action on it (revoke, *)
(* authorize) drops the cache.                                             *)

\* sg.load(): the group as the provider holds it now.
Loaded(sg_id) ==
    [loaded |-> TRUE,
     ip_permissions |-> securityGroups[sg_id].IpPermissions,
     ip_permissions_egress |-> securityGroups[sg_id].IpPermissionsEgress]

\* Where ensure_ecs_gress and ensure_ec2_gress go on after revoke_all_perms.
AfterRevoke(variant) == IF variant = "ecs" THEN "get_ip" ELSE "authorize_egress"

\* EgressCheck, were revoke_all_perms to revoke the ingress rules only.
EgressCheck_skip(pr, data) == Goto([pr EXCEPT !.data = data], AfterRevoke(pr.variant))

\* The position after the ingress part of revoke_all_perms, from sg's data.
EgressCheck(pr, data) ==
    IF Cardinality(data.ip_permissions_egress) > 0
    THEN Goto([pr EXCEPT !.data = data], "revoke_egress")
    ELSE Goto([pr EXCEPT !.data = data], AfterRevoke(pr.variant))

WithRules(sg_id, ingress, egress) ==
    [securityGroups EXCEPT ![sg_id].IpPermissions = ingress,
                           ![sg_id].IpPermissionsEgress = egress]

\* len(sg.ip_permissions) > 0, the first read of sg: it loads the group.
revoke_all_perms(p) ==
    /\ At(p, "revoke_all_perms")
    /\ LET data == Loaded(procs[p].sg_id)
           pr == Logged(procs[p], Req("load_security_group", "", procs[p].sg_id))
       IN  IF Cardinality(data.ip_permissions) > 0
           THEN Set(p, Goto([pr EXCEPT !.data = data], "revoke_ingress"))
           ELSE Set(p, EgressCheck(pr, data))
    /\ UNCHANGED <<provider, environment>>

\* sg.revoke_ingress(IpPermissions=sg.ip_permissions), with the cached rules.
revoke_ingress(p) ==
    /\ At(p, "revoke_ingress")
    /\ LET id == procs[p].sg_id
           perms == procs[p].data.ip_permissions
           pr == Logged([procs[p] EXCEPT !.data = NoData],
                        Req("revoke_ingress", "", id))
       IN  IF perms \subseteq securityGroups[id].IpPermissions
           THEN /\ securityGroups' =
                      WithRules(id, securityGroups[id].IpPermissions \ perms,
                                securityGroups[id].IpPermissionsEgress)
                /\ Set(p, Goto(pr, "revoke_all_perms_egress"))
           ELSE /\ Set(p, Raise(pr, "ClientError: InvalidPermission.NotFound"))
                /\ UNCHANGED securityGroups
    /\ UNCHANGED <<clusters, taskDefs, logGroups, roles, subnets, tasks, nics, bucket, files, environment>>

\* len(sg.ip_permissions_egress) > 0 after revoke_ingress: it loads the group again.
revoke_all_perms_egress(p) ==
    /\ At(p, "revoke_all_perms_egress")
    /\ Set(p, EgressCheck(Logged(procs[p],
                                 Req("load_security_group", "", procs[p].sg_id)),
                          Loaded(procs[p].sg_id)))
    /\ UNCHANGED <<provider, environment>>

\* sg.revoke_egress(IpPermissions=sg.ip_permissions_egress), with the cached rules.
revoke_egress(p) ==
    /\ At(p, "revoke_egress")
    /\ LET id == procs[p].sg_id
           perms == procs[p].data.ip_permissions_egress
           pr == Logged([procs[p] EXCEPT !.data = NoData],
                        Req("revoke_egress", "", id))
       IN  IF perms \subseteq securityGroups[id].IpPermissionsEgress
           THEN /\ securityGroups' =
                      WithRules(id, securityGroups[id].IpPermissions,
                                securityGroups[id].IpPermissionsEgress \ perms)
                /\ Set(p, Goto(pr, AfterRevoke(pr.variant)))
           ELSE /\ Set(p, Raise(pr, "ClientError: InvalidPermission.NotFound"))
                /\ UNCHANGED securityGroups
    /\ UNCHANGED <<clusters, taskDefs, logGroups, roles, subnets, tasks, nics, bucket, files, environment>>

LookupFailure == "lookup-failure"
ExternalLookupFailure == "IpifyException"

\* ip = ipify.get_ip()
get_ip(p) ==
    /\ At(p, "get_ip")
    /\ \E answer \in ips :
          LET pr == Logged(procs[p], Req("get_ip", answer, 0))
          IN  IF answer = LookupFailure
              THEN Set(p, Raise(pr, ExternalLookupFailure))
              ELSE Set(p, Goto([pr EXCEPT !.ip = answer], "authorize_egress"))
    /\ UNCHANGED <<provider, environment>>

\* The ingress rule of a variant.
IngressPerm(variant, ip) ==
    IF variant = "ecs" THEN axon_tcp_perm(ip) ELSE all_http_perm

\* sg.authorize_egress(IpPermissions=[all_perm])
authorize_egress(p) ==
    /\ At(p, "authorize_egress")
    /\ LET id == procs[p].sg_id
           pr == Logged([procs[p] EXCEPT !.data = NoData],
                        Req("authorize_egress", "", id))
       IN  \/ /\ all_perm \notin securityGroups[id].IpPermissionsEgress
              /\ securityGroups' =
                    WithRules(id, securityGroups[id].IpPermissions,
                              securityGroups[id].IpPermissionsEgress \cup {all_perm})
              /\ Set(p, Goto(pr, "authorize_ingress"))
           \/ /\ all_perm \in securityGroups[id].IpPermissionsEgress
              /\ Set(p, Raise(pr, "ClientError: InvalidPermission.Duplicate"))
              /\ UNCHANGED securityGroups
           \/ /\ "authorize_egress" \in faults
              /\ Set(p, Raise(pr, "ClientError"))
              /\ UNCHANGED securityGroups
    /\ UNCHANGED <<clusters, taskDefs, logGroups, roles, subnets, tasks, nics, bucket, files, environment>>

GressName(variant) == IF variant = "ecs" THEN "ensure_ecs_gress" ELSE "ensure_ec2_gress"

\* authorize_ingress, were a failure of it to take back the egress rule.
authorize_ingress_rollback(p) ==
    /\ At(p, "authorize_ingress")
    /\ LET id == procs[p].sg_id
           perm == IngressPerm(procs[p].variant, procs[p].ip)
           pr == Logged([procs[p] EXCEPT !.data = NoData],
                        Req("authorize_ingress", "", id))
       IN  \/ /\ perm \notin securityGroups[id].IpPermissions
              /\ securityGroups' =
                    WithRules(id, securityGroups[id].IpPermissions \cup {perm},
                              securityGroups[id].IpPermissionsEgress)
              /\ Set(p, ReturnValFrom(pr, GressName(pr.variant),
                                      [sg_id |-> id, ip |-> pr.ip,
                                       ingress |-> securityGroups'[id].IpPermissions,
                                       egress |-> securityGroups'[id].IpPermissionsEgress]))
           \/ /\ "authorize_ingress" \in faults
              /\ securityGroups' =
                    WithRules(id, securityGroups[id].IpPermissions,
                              securityGroups[id].IpPermissionsEgress \ {all_perm})
              /\ Set(p, Raise(Logged(Logged(pr, Raised("ClientError")),
                                     Req("revoke_egress", "", id)),
                              "ClientError"))
    /\ UNCHANGED <<clusters, taskDefs, logGroups, roles, subnets, tasks, nics, bucket, files, environment>>

\* sg.authorize_ingress(IpPermissions=[axon_tcp_perm]) or [all_http_perm]
authorize_ingress(p) ==
    /\ At(p, "authorize_ingress")
    /\ LET id == procs[p].sg_id
           perm == IngressPerm(procs[p].variant, procs[p].ip)
           pr == Logged([procs[p] EXCEPT !.data = NoData],
                        Req("authorize_ingress", "", id))
       IN  \/ /\ perm \notin securityGroups[id].IpPermissions
              /\ securityGroups' =
                    WithRules(id, securityGroups[id].IpPermissions \cup {perm},
                              securityGroups[id].IpPermissionsEgress)
              /\ Set(p, ReturnValFrom(pr, GressName(pr.variant),
                                      [sg_id |-> id, ip |-> pr.ip,
                                       ingress |-> securityGroups'[id].IpPermissions,
                                       egress |-> securityGroups'[id].IpPermissionsEgress]))
           \/ /\ perm \in securityGroups[id].IpPermissions
              /\ Set(p, Raise(pr, "ClientError: InvalidPermission.Duplicate"))
              /\ UNCHANGED securityGroups
           \/ /\ "authorize_ingress" \in faults
              /\ Set(p, Raise(pr, "ClientError"))
              /\ UNCHANGED securityGroups
    /\ UNCHANGED <<clusters, taskDefs, logGroups, roles, subnets, tasks, nics, bucket, files, environment>>

----------------------------------------------------------------------------
(* impl_ensure_configuration and the commands                              *)

impl_ensure_configuration(p) ==
    /\ At(p, "impl_ensure_configuration")
    /\ Set(p, Run(procs[p],
                  << "ensure_cluster", "ensure_task", "ensure_ec2_security_group",
                     "ensure_ecs_security_group", "ensure_task_role",
                     "ensure_ec2_role", "impl_ensure_configuration_end" >>))
    /\ UNCHANGED <<provider, environment>>

impl_ensure_configuration_end(p) ==
    /\ At(p, "impl_ensure_configuration_end")
    /\ Set(p, ReturnFrom(procs[p], "impl_ensure_configuration"))
    /\ UNCHANGED <<provider, environment>>

----------------------------------------------------------------------------
(* select_subnet, impl_start_task, impl_stop_task, wait_for_task_to_start  *)

\* describe_subnets(Filters=[])["Subnets"][0]["SubnetId"]
select_subnet(p) ==
    /\ At(p, "select_subnet")
    /\ LET pr == Logged(procs[p], Req("describe_subnets", "", Len(subnets)))
       IN  IF Len(subnets) = 0
           THEN Set(p, Raise(pr, "IndexError"))
           ELSE Set(p, Return([pr EXCEPT !.subnet_id = subnets[1]]))
    /\ UNCHANGED <<provider, environment>>

impl_start_task(p) ==
    /\ At(p, "impl_start_task")
    /\ Set(p, Run(Logged(procs[p], Call("impl_start_task")),
                  << "impl_ensure_configuration", "ensure_ecs_security_group",
                     "select_subnet", "run_task" >>))
    /\ UNCHANGED <<provider, environment>>

StartFailure == "RuntimeError: Failed to start task"
MultipleTasksError == "RuntimeError: Started more than one task"

\* What impl_start_task does with run_response["tasks"].
RunTaskOutcome_first(started) ==
    IF Len(started) = 0
    THEN [kind |-> "raise", err |-> StartFailure, arn |-> 0]
    ELSE [kind |-> "return", err |-> "", arn |-> started[1].taskArn]

RunTaskOutcome(started) ==
    IF Len(started) = 0
    THEN [kind |-> "raise", err |-> StartFailure, arn |-> 0]
    ELSE IF Len(started) > 1
    THEN [kind |-> "raise", err |-> MultipleTasksError, arn |-> 0]
    ELSE [kind |-> "return", err |-> "", arn |-> started[1].taskArn]

\* taskDefinition=task_family if revision is None else "{}:{}".format(...)
TaskDefinitionArg(task_family, revision) ==
    IF revision = 0 THEN task_family
    ELSE task_family \o << ":", Digits[revision + 1] >>

\* The definitions a taskDefinition argument names: a family, or family:revision.
DefsNamed(arg) ==
    {td \in taskDefs :
        \/ arg = td.family
        \/ arg = td.family \o << ":", Digits[td.revision + 1] >>}

\* client.run_task(...): the provider starts any number of tasks up to
\* MaxRunTasks, or rejects the request when the definition does not exist.
run_task(p) ==
    /\ At(p, "run_task")
    /\ LET arg == TaskDefinitionArg(TaskFamily, procs[p].revision)
       IN  IF DefsNamed(arg) = {}
           THEN /\ Set(p, Raise(Logged(procs[p], Req("run_task", "", -1)),
                                "ClientError"))
                /\ UNCHANGED tasks
           ELSE \E k \in 0..MaxRunTasks :
                   LET started ==
                          [i \in 1..k |->
                              [taskArn |-> Len(tasks) + i, taskDefinition |-> arg,
                               subnet |-> procs[p].subnet_id,
                               securityGroup |-> procs[p].sg_id,
                               lastStatus |-> "PROVISIONING",
                               attachments |-> << >>]]
                       out == RunTaskOutcome(started)
                       pr == Logged(procs[p], ReqVal("run_task", "", k, started))
                   IN  /\ tasks' = tasks \o started
                       /\ IF out.kind = "raise"
                          THEN Set(p, Raise(pr, out.err))
                          ELSE Set(p, ReturnValFrom([pr EXCEPT !.task_arn = out.arn],
                                                   "impl_start_task", out.arn))
    /\ UNCHANGED <<clusters, taskDefs, logGroups, securityGroups, roles, subnets,
                   nics, bucket, files, environment>>

\* client.stop_task(cluster=cluster_name, task=task_arn)
impl_stop_task(p) ==
    /\ At(p, "impl_stop_task")
    /\ tasks' = [tasks EXCEPT ![procs[p].task_arn].lastStatus = "STOPPED"]
    /\ Set(p, ReturnFrom(Logged(procs[p], Req("stop_task", "", procs[p].task_arn)),
                         "impl_stop_task"))
    /\ UNCHANGED <<clusters, taskDefs, logGroups, securityGroups, roles, subnets,
                   nics, bucket, files, environment>>

ENI == "ElasticNetworkInterface"

EniAttachment(id) ==
    [type |-> ENI,
     details |-> << [name |-> "subnetId", value |-> "subnet-1"],
                    [name |-> "networkInterfaceId", value |-> id] >>]

\* What the provider attaches to a task it has provisioned: nothing, or one
\* network interface.
Provisioned ==
    {<< >>, << EniAttachment("eni-1") >>, << EniAttachment("eni-2") >>}

\* waiter.wait(cluster=cluster, tasks=[task_arn]): the waiter polls until the
\* task runs, and raises when the task stops instead.
wait_for_task_to_start(p) ==
    /\ At(p, "wait_for_task_to_start")
    /\ \E status \in {"RUNNING", "STOPPED"}, attachments \in Provisioned :
          LET pr == Logged(procs[p], Req("wait_tasks_running", status, procs[p].task_arn))
          IN  /\ status = "STOPPED" => attachments = << >>
              /\ tasks' = [tasks EXCEPT ![procs[p].task_arn].lastStatus = status,
                                        ![procs[p].task_arn].attachments = attachments]
              /\ IF status = "RUNNING"
                 THEN Set(p, ReturnFrom(pr, "wait_for_task_to_start"))
                 ELSE Set(p, Raise(pr, "WaiterError"))
    /\ UNCHANGED <<clusters, taskDefs, logGroups, securityGroups, roles, subnets,
                   nics, bucket, files, environment>>

----------------------------------------------------------------------------
(* impl_get_task_ip                                                        *)

\* The elements of seq that pass Test, in order: a generator's values.
Matching(seq, Test(_)) == SelectSeq(seq, Test)

\* nics[0]["Association"]["PublicIp"], were it read with .get() and a default.
PublicIpOf_get(found) ==
    IF Len(found) = 0 THEN [kind |-> "raise", err |-> "IndexError", ip |-> ""]
    ELSE IF "Association" \notin DOMAIN found[1]
    THEN [kind |-> "return", err |-> "", ip |-> ""]
    ELSE IF "PublicIp" \notin DOMAIN found[1].Association
    THEN [kind |-> "return", err |-> "", ip |-> ""]
    ELSE [kind |-> "return", err |-> "", ip |-> found[1].Association.PublicIp]

\* nics[0]["Association"]["PublicIp"]
PublicIpOf(found) ==
    IF Len(found) = 0 THEN [kind |-> "raise", err |-> "IndexError", ip |-> ""]
    ELSE IF "Association" \notin DOMAIN found[1]
    THEN [kind |-> "raise", err |-> "KeyError", ip |-> ""]
    ELSE IF "PublicIp" \notin DOMAIN found[1].Association
    THEN [kind |-> "raise", err |-> "KeyError", ip |-> ""]
    ELSE [kind |-> "return", err |-> "", ip |-> found[1].Association.PublicIp]

\* describe_tasks(...)["tasks"][0], then the two next(...) over its attachments.
impl_get_task_ip(p) ==
    /\ At(p, "impl_get_task_ip")
    /\ LET found == SelectSeq(tasks, LAMBDA t : t.taskArn = procs[p].task_arn)
           pr == Logged(procs[p], Req("describe_tasks", "", Len(found)))
       IN  IF Len(found) = 0
           THEN Set(p, Raise(pr, "IndexError"))
           ELSE LET interfaces == Matching(found[1].attachments,
                                           LAMBDA x : x.type = ENI)
                IN  IF Len(interfaces) = 0
                    THEN Set(p, Raise(pr, "StopIteration"))
                    ELSE LET ids == Matching(interfaces[1].details,
                                             LAMBDA x : x.name = "networkInterfaceId")
                         IN  IF Len(ids) = 0
                             THEN Set(p, Raise(pr, "StopIteration"))
                             ELSE Set(p, Goto([pr EXCEPT !.eni = ids[1].value],
                                              "describe_network_interfaces"))
    /\ UNCHANGED <<provider, environment>>

\* describe_network_interfaces(Filters=[network-interface-id = eni])
describe_network_interfaces(p) ==
    /\ At(p, "describe_network_interfaces")
    /\ LET found == SelectSeq(nics, LAMBDA n : n.NetworkInterfaceId = procs[p].eni)
           out == PublicIpOf(found)
           pr == Logged(procs[p],
                        Req("describe_network_interfaces", procs[p].eni, Len(found)))
       IN  IF out.kind = "raise"
           THEN Set(p, Raise(pr, out.err))
           ELSE Set(p, ReturnValFrom([pr EXCEPT !.ip = out.ip], "impl_get_task_ip",
                                     out.ip))
    /\ UNCHANGED <<provider, environment>>

----------------------------------------------------------------------------
(* impl_upload_model_file, impl_download_model_file                        *)

\* "axon-uploaded-trained-models/"
ModelPrefix ==
    << "a", "x", "o", "n", "-", "u", "p", "l", "o", "a", "d", "e", "d", "-",
       "t", "r", "a", "i", "n", "e", "d", "-", "m", "o", "d", "e", "l", "s", "/" >>

\* os.path.basename(path)
Basename(path) == SplitLast(path, "/")

\* RemotePath, were the whole local path appended to the prefix.
RemotePath_whole(prefix, local_file_path) == prefix \o local_file_path

\* "axon-uploaded-trained-models/" + os.path.basename(local_file_path)
RemotePath(prefix, local_file_path) == prefix \o Basename(local_file_path)

\* f with x mapped to y.
Put(f, x, y) == [k \in DOMAIN f \cup {x} |-> IF k = x THEN y ELSE f[k]]

\* client.upload_file(local_file_path, bucket_name, remote_path)
impl_upload_model_file(p) ==
    /\ At(p, "impl_upload_model_file")
    /\ LET path == procs[p].path
           remote_path == RemotePath(ModelPrefix, path)
       IN  IF path \in DOMAIN files
           THEN /\ bucket' = Put(bucket, remote_path, files[path])
                /\ Set(p, ReturnFrom(
                             Logged(procs[p],
                                    ReqVal("upload_file", "", 0,
                                           [path |-> path, key |-> remote_path,
                                            body |-> files[path]])),
                             "impl_upload_model_file"))
           ELSE /\ UNCHANGED bucket
                /\ Set(p, Raise(Logged(procs[p], Req("upload_file", "", -1)),
                                "FileNotFoundError"))
    /\ UNCHANGED <<clusters, taskDefs, logGroups, securityGroups, roles, subnets,
                   tasks, nics, files, environment>>

\* client.download_file(bucket_name, remote_path, local_file_path)
impl_download_model_file(p) ==
    /\ At(p, "impl_download_model_file")
    /\ LET path == procs[p].path
           remote_path == RemotePath(ModelPrefix, path)
       IN  IF remote_path \in DOMAIN bucket
           THEN /\ files' = Put(files, path, bucket[remote_path])
                /\ Set(p, ReturnFrom(
                             Logged(procs[p],
                                    ReqVal("download_file", "", 0,
                                           [path |-> path, key |-> remote_path,
                                            body |-> files'[path]])),
                             "impl_download_model_file"))
           ELSE /\ UNCHANGED files
                /\ Set(p, Raise(Logged(procs[p], Req("download_file", "", -1)),
                                "ClientError: 404"))
    /\ UNCHANGED <<clusters, taskDefs, logGroups, securityGroups, roles, subnets,
                   tasks, nics, bucket, environment>>

----------------------------------------------------------------------------
(* start-axon                                                              *)

\* "http://{}:8080/axon/dataset".format(ip)
DatasetUrl(ip) == << "http://", ip, ":8080/axon/dataset" >>

\* webbrowser.open("http://{}:8080/axon/dataset".format(ip), 2)
webbrowser_open(p) ==
    /\ At(p, "webbrowser_open")
    /\ Set(p, ReturnFrom(Logged(procs[p],
                                ReqVal("webbrowser_open", "", 0,
                                       DatasetUrl(procs[p].ip))),
                         "webbrowser_open"))
    /\ UNCHANGED <<provider, environment>>

----------------------------------------------------------------------------
(* The commands                                                            *)

GressCmds == {"ensure_ecs_gress", "ensure_ec2_gress"}
FileCmds == {"upload-model-file", "download-model-file"}

\* The local paths given to the file commands.
Paths ==
    { << "a", "/", "m" >>, << "b", "/", "m" >>, << "m" >>, << "a", "/", "n" >> }

\* The values --revision is given: none, or a revision.
Revisions == {0, 2}

\* The code of the commands, were --stop-after not read: the task is
\* stopped and then waited for.
Entry_unread(cmd, stop_after) ==
    IF cmd = "start-task"
    THEN << "impl_ensure_configuration", "impl_start_task", "impl_stop_task",
            "wait_for_task_to_start" >>
    ELSE IF cmd = "start-axon"
    THEN << "impl_ensure_configuration", "impl_start_task", "wait_for_task_to_start",
            "impl_get_task_ip", "webbrowser_open" >>
    ELSE << cmd >>

\* The code a command starts at.
Entry(cmd, stop_after) ==
    IF cmd = "ensure-configuration" THEN << "impl_ensure_configuration" >>
    ELSE IF cmd \in GressCmds THEN << "revoke_all_perms" >>
    ELSE IF cmd = "start-task"
    THEN << "impl_ensure_configuration", "impl_start_task",
            IF stop_after THEN "impl_stop_task" ELSE "wait_for_task_to_start" >>
    ELSE IF cmd = "start-axon"
    THEN << "impl_ensure_configuration", "impl_start_task", "wait_for_task_to_start",
            "impl_get_task_ip", "webbrowser_open" >>
    ELSE IF cmd = "get-container-ip" THEN << "impl_get_task_ip" >>
    ELSE IF cmd = "upload-model-file" THEN << "impl_upload_model_file" >>
    ELSE IF cmd = "download-model-file" THEN << "impl_download_model_file" >>
    ELSE << cmd >>

\* The arguments a command can be given besides cluster-name and task-family.
Arguments(cmd) ==
    [ sg_id : IF cmd \in GressCmds THEN 1..Len(securityGroups) ELSE {0},
      stop_after : IF cmd = "start-task" THEN BOOLEAN ELSE {FALSE},
      revision : IF cmd \in {"start-task", "start-axon"} THEN Revisions ELSE {0},
      task : IF cmd = "get-container-ip" THEN 1..(Len(tasks) + 1) ELSE {0},
      path : IF cmd \in FileCmds THEN Paths ELSE {<< >>} ]

\* A new invocation: of a command, or of one function of the module with its
\* arguments.
StartCommand(p) ==
    /\ procs[p].status \in {"idle", "done", "failed"}
    /\ procs[p].runs < MaxRuns
    /\ \E cmd \in cmds : \E args \in Arguments(cmd) :
          Set(p, [IdleProc EXCEPT
                    !.status = "run",
                    !.cmd = cmd,
                    !.runs = procs[p].runs + 1,
                    !.stack = Entry(cmd, args.stop_after),
                    !.variant = IF cmd = "ensure_ecs_gress" THEN "ecs"
                                ELSE IF cmd = "ensure_ec2_gress" THEN "ec2" ELSE "",
                    !.sg_id = args.sg_id,
                    !.stop_after = args.stop_after,
                    !.revision = args.revision,
                    !.task_arn = args.task,
                    !.path = args.path,
                    !.log = Append(procs[p].log,
                                   Start(cmd, IF cmd \in GressCmds
                                              THEN Loaded(args.sg_id) ELSE args))])
    /\ UNCHANGED <<provider, environment>>

----------------------------------------------------------------------------
(* Initial accounts.                                                       *)

Copies(x, n) == [i \in 1..n |-> x]

\* Rule lists of at most MaxRules rules.
RuleLists == {R \in SUBSET RuleUniverse : Cardinality(R) <= MaxRules}

\* a groups named Ec2SgName, then b groups named EcsSgName, with the rules given.
InitialGroups(a, b, ingress, egress) ==
    [i \in 1..(a + b) |->
        [GroupId |-> i, GroupName |-> IF i <= a THEN Ec2SgName ELSE EcsSgName,
         IpPermissions |-> ingress, IpPermissionsEgress |-> egress]]

\* a roles named TaskRoleName, then b roles named Ec2RoleName, without policies.
InitialRoles(a, b) ==
    [i \in 1..(a + b) |->
        [RoleName |-> IF i <= a THEN TaskRoleName ELSE Ec2RoleName, Arn |-> i,
         policies |-> {}]]

\* An older definition: its cpu and memory are not the ones the tool registers.
StaleDef(family, revision) ==
    [family |-> family, revision |-> revision, taskRoleArn |-> 0, cpu |-> "256",
     memory |-> "512"]

InitialDefs(n, other) ==
    {StaleDef(TaskFamily, r) : r \in 1..n} \cup {StaleDef(OtherFamily, r) : r \in 1..other}

InitialLogGroups(n, other) ==
    Copies(LogGroupName(OtherFamily), other) \o Copies(LogGroupName(TaskFamily), n)

\* The processes of the model; the ones a scenario does not run are absent.
Procs == {1, 2}

OneProc ==
    [p \in Procs |-> IF p = 1 THEN IdleProc ELSE [IdleProc EXCEPT !.status = "absent"]]

TwoProcs == [p \in Procs |-> IdleProc]

\* A process that has one invocation left.
LastRun == [IdleProc EXCEPT !.runs = MaxRuns - 1]

\* A process that has two invocations left.
LastTwoRuns == [IdleProc EXCEPT !.runs = MaxRuns - 2]

\* The account with nc clusters, nd definitions and nl log groups of the
\* family, `other` of the other family, a + b security groups with the rules
\* given and ra + rb roles.
Account(nc, nd, nl, other, a, b, rules, ra, rb) ==
    /\ clusters = Copies(ClusterName, nc)
    /\ taskDefs = InitialDefs(nd, other)
    /\ logGroups = InitialLogGroups(nl, other)
    /\ securityGroups = InitialGroups(a, b, rules[1], rules[2])
    /\ roles = InitialRoles(ra, rb)

\* No task, network interface, object or local file, and one subnet.
NothingElse ==
    /\ subnets = << "subnet-1" >>
    /\ tasks = << >>
    /\ nics = << >>
    /\ bucket = << >>
    /\ files = << >>

SomeRules == {<<{}, {default_egress}>>, <<{ssh_perm}, {all_perm}>>}

\* ensure-configuration, once or again, on an account in which no name the
\* tool reconciles is ambiguous.
Init ==
    /\ \E nc \in 0..1, nd \in 0..MaxDup, nl \in 0..1, other \in 0..1,
          a \in 0..1, b \in 0..1, rules \in SomeRules, ra \in 0..1, rb \in 0..1 :
          Account(nc, nd, nl, other, a, b, rules, ra, rb)
    /\ NothingElse
    /\ ips = {"198.51.100.7"}
    /\ faults = {}
    /\ cmds = {"ensure-configuration"}
    /\ procs = OneProc

KindCmds ==
    {"ensure_cluster", "ensure_log_group", "ensure_task", "ensure_task_role",
     "ensure_ec2_role", "ensure_ecs_security_group", "ensure_ec2_security_group"}

\* One ensure function, once or again, on an account that holds any number up
\* to MaxDup of the resources the function lists.
InitKinds ==
    /\ \E cmd \in KindCmds :
          /\ cmds = {cmd}
          /\ \/ /\ cmd = "ensure_cluster"
                /\ \E nc \in 0..MaxDup :
                      Account(nc, 0, 0, 0, 0, 0, <<{}, {}>>, 0, 0)
             \/ /\ cmd = "ensure_log_group"
                /\ \E nl \in 0..MaxDup, other \in 0..1 :
                      Account(0, 0, nl, other, 0, 0, <<{}, {}>>, 0, 0)
             \/ /\ cmd = "ensure_task"
                /\ \E nd \in 0..MaxDup, nl \in 0..MaxDup, other \in 0..1,
                      ra \in 0..MaxDup :
                      Account(0, nd, nl, other, 0, 0, <<{}, {}>>, ra, 0)
             \/ /\ cmd \in {"ensure_task_role", "ensure_ec2_role"}
                /\ \E ra \in 0..MaxDup, rb \in 0..MaxDup :
                      Account(0, 0, 0, 0, 0, 0, <<{}, {}>>, ra, rb)
             \/ /\ cmd \in {"ensure_ecs_security_group", "ensure_ec2_security_group"}
                /\ \E a \in 0..MaxDup, b \in 0..MaxDup, rules \in SomeRules :
                      Account(0, 0, 0, 0, a, b, rules, 0, 0)
    /\ NothingElse
    /\ ips = {"198.51.100.7"}
    /\ faults = {}
    /\ procs = OneProc

IngressLists ==
    {R \in SUBSET {ssh_perm, all_http_perm, axon_tcp_perm("198.51.100.7")} :
        Cardinality(R) <= MaxRules}

EgressLists ==
    {R \in SUBSET {ssh_perm, all_perm, default_egress} : Cardinality(R) <= MaxRules}

\* ensure_ecs_gress or ensure_ec2_gress, once or again, on a security group
\* with any rules; the IP lookup and the authorize requests can fail.
InitGress ==
    /\ \E ingress \in IngressLists, egress \in EgressLists :
          Account(0, 0, 0, 0, 0, 1, <<ingress, egress>>, 0, 0)
    /\ NothingElse
    /\ ips = CallerIps \cup {LookupFailure}
    /\ faults = {"authorize_egress", "authorize_ingress"}
    /\ cmds = GressCmds
    /\ procs = OneProc

\* start-task, once, on an account that is new or configured, with or
\* without a subnet; the IP lookup can fail.
InitStart ==
    /\ \E nc \in 0..1, nd \in 0..MaxDup, b \in 0..MaxDup, r \in 0..1,
          nets \in {<< >>, << "subnet-1" >>} :
          /\ Account(nc, nd, nc, 0, nc, b, <<{}, {default_egress}>>, r, r)
          /\ subnets = nets
    /\ tasks = << >>
    /\ nics = << >>
    /\ bucket = << >>
    /\ files = << >>
    /\ ips = {"198.51.100.7", LookupFailure}
    /\ faults = {}
    /\ cmds = {"start-task"}
    /\ procs = [OneProc EXCEPT ![1] = LastRun]

\* What a task's attachments can be: a network interface that has a public
\* IP, one that has no association, one whose association has no public IP,
\* one the provider no longer describes, one without an interface id, and an
\* attachment of another type.
Attachments ==
    { EniAttachment("eni-1"), EniAttachment("eni-2"), EniAttachment("eni-3"),
      EniAttachment("eni-4"),
      [type |-> ENI, details |-> << [name |-> "subnetId", value |-> "subnet-1"] >>],
      [type |-> "Other",
       details |-> << [name |-> "networkInterfaceId", value |-> "eni-1"] >>] }

AttachmentLists ==
    UNION {[1..n -> Attachments] : n \in 0..MaxAttach}

InitialNics ==
    << [NetworkInterfaceId |-> "eni-1",
        Association |-> [PublicIp |-> "54.0.0.1", IpOwnerId |-> "amazon"]],
       [NetworkInterfaceId |-> "eni-2"],
       [NetworkInterfaceId |-> "eni-3", Association |-> [CarrierIp |-> "155.0.0.1"]] >>

\* get-container-ip, once or again, for a task with any attachments or for a
\* task the cluster does not have.
InitIp ==
    /\ Account(1, 1, 1, 0, 1, 1, <<{}, {default_egress}>>, 1, 1)
    /\ subnets = << "subnet-1" >>
    /\ \E attachments \in AttachmentLists :
          tasks = << [taskArn |-> 1, taskDefinition |-> TaskFamily,
                      subnet |-> "subnet-1", securityGroup |-> 2,
                      lastStatus |-> "RUNNING", attachments |-> attachments] >>
    /\ nics = InitialNics
    /\ bucket = << >>
    /\ files = << >>
    /\ ips = {"198.51.100.7"}
    /\ faults = {}
    /\ cmds = {"get-container-ip"}
    /\ procs = OneProc

\* upload-model-file and download-model-file, one after another, with some
\* local files present and the bucket empty or holding an earlier upload.
InitS3 ==
    /\ Account(0, 0, 0, 0, 0, 0, <<{}, {}>>, 0, 0)
    /\ subnets = << "subnet-1" >>
    /\ tasks = << >>
    /\ nics = << >>
    /\ files = [path \in {<< "a", "/", "m" >>, << "b", "/", "m" >>, << "m" >>} |->
                   IF path = << "a", "/", "m" >> THEN "bytes-A"
                   ELSE IF path = << "b", "/", "m" >> THEN "bytes-B"
                   ELSE "bytes-C"]
    /\ bucket \in {<< >>, [key \in {ModelPrefix \o << "n" >>} |-> "bytes-N"]}
    /\ ips = {"198.51.100.7"}
    /\ faults = {}
    /\ cmds = FileCmds
    /\ procs = OneProc

RaceCmds ==
    {"ensure_task_role", "ensure_ec2_role", "ensure_ecs_security_group",
     "ensure_ec2_security_group"}

\* One ensure function of a security group or of a role, invoked once or
\* again by one process while another process invokes it once, on an account
\* that has none or one of them.
InitRace ==
    /\ \E cmd \in RaceCmds, n \in 0..1 :
          /\ cmds = {cmd}
          /\ Account(0, 0, 0, 0, n, n, <<{}, {default_egress}>>, n, n)
    /\ NothingElse
    /\ ips = {"198.51.100.7"}
    /\ faults = {}
    /\ procs = [TwoProcs EXCEPT ![2] = LastRun]

LifecycleCmds == {"start-task", "start-axon"}

\* start-task and start-axon, one after the other, on an account that is new or
\* configured, or that has more than one security group of the name.
InitLifecycle ==
    /\ \E nc \in 0..1, b \in {1, MaxDup} :
          Account(nc, nc, nc, 0, nc, nc * b, <<{}, {default_egress}>>, nc, nc)
    /\ subnets = << "subnet-1" >>
    /\ tasks = << >>
    /\ nics = InitialNics
    /\ bucket = << >>
    /\ files = << >>
    /\ ips = {"198.51.100.7"}
    /\ faults = {}
    /\ cmds = LifecycleCmds
    /\ procs = [OneProc EXCEPT ![1] = LastTwoRuns]

Kinds(p) ==
    \/ ensure_cluster(p)
    \/ create_cluster(p)
    \/ ensure_log_group(p)
    \/ create_log_group(p)
    \/ ensure_task_role(p)
    \/ create_task_role(p)
    \/ attach_task_role_policy(p)
    \/ ensure_ec2_role(p)
    \/ create_ec2_role(p)
    \/ attach_ec2_role_policy(p)
    \/ ensure_task(p)
    \/ register_task_definition(p)
    \/ ensure_ecs_security_group(p)
    \/ ensure_ec2_security_group(p)
    \/ create_security_group(p)

Gress(p) ==
    \/ revoke_all_perms(p)
    \/ revoke_ingress(p)
    \/ revoke_all_perms_egress(p)
    \/ revoke_egress(p)
    \/ get_ip(p)
    \/ authorize_egress(p)
    \/ authorize_ingress(p)

Configure(p) ==
    \/ impl_ensure_configuration(p)
    \/ impl_ensure_configuration_end(p)

Next ==
    \E p \in Procs :
       \/ StartCommand(p)
       \/ Configure(p)
       \/ Kinds(p)
       \/ Gress(p)

Spec == Init /\ [][Next]_vars

NextKinds ==
    \E p \in Procs :
       \/ StartCommand(p)
       \/ Kinds(p)
       \/ Gress(p)

SpecKinds == InitKinds /\ [][NextKinds]_vars

NextGress ==
    \E p \in Procs :
       \/ StartCommand(p)
       \/ Gress(p)

SpecGress == InitGress /\ [][NextGress]_vars

StartTask(p) ==
    \/ impl_start_task(p)
    \/ select_subnet(p)
    \/ run_task(p)
    \/ impl_stop_task(p)
    \/ wait_for_task_to_start(p)

NextStart ==
    \E p \in Procs :
       \/ StartCommand(p)
       \/ Configure(p)
       \/ Kinds(p)
       \/ Gress(p)
       \/ StartTask(p)

SpecStart == InitStart /\ [][NextStart]_vars

NextLifecycle ==
    \E p \in Procs :
       \/ StartCommand(p)
       \/ Configure(p)
       \/ Kinds(p)
       \/ Gress(p)
       \/ StartTask(p)
       \/ impl_get_task_ip(p)
       \/ describe_network_interfaces(p)
       \/ webbrowser_open(p)

SpecLifecycle == InitLifecycle /\ [][NextLifecycle]_vars

NextIp ==
    \E p \in Procs :
       \/ StartCommand(p)
       \/ impl_get_task_ip(p)
       \/ describe_network_interfaces(p)

SpecIp == InitIp /\ [][NextIp]_vars

NextS3 ==
    \E p \in Procs :
       \/ StartCommand(p)
       \/ impl_upload_model_file(p)
       \/ impl_download_model_file(p)

SpecS3 == InitS3 /\ [][NextS3]_vars

NextRace ==
    \E p \in Procs :
       \/ StartCommand(p)
       \/ ensure_task_role(p)
       \/ create_task_role(p)
       \/ attach_task_role_policy(p)
       \/ ensure_ec2_role(p)
       \/ create_ec2_role(p)
       \/ attach_ec2_role_policy(p)
       \/ ensure_ecs_security_group(p)
       \/ ensure_ec2_security_group(p)
       \/ create_security_group(p)
       \/ Gress(p)

SpecRace == InitRace /\ [][NextRace]_vars

----------------------------------------------------------------------------
(* Reading the history of a process.                                       *)

LogOf(p) == procs[p].log

IsReq(e, op) == e.ev = "req" /\ e.op = op

\* The resource kinds: the request that lists a kind, the name listed, the
\* request that creates one, and the function that returns when it is ensured.
ResourceKinds ==
    { [kind |-> "cluster", list |-> "describe_clusters", arg |-> ClusterName,
       create |-> "create_cluster", fn |-> "ensure_cluster"],
      [kind |-> "log group", list |-> "describe_log_groups", arg |-> "/ecs/family",
       create |-> "create_log_group", fn |-> "ensure_log_group"],
      [kind |-> "task definition", list |-> "list_task_definitions",
       arg |-> "family", create |-> "register_task_definition",
       fn |-> "ensure_task"],
      [kind |-> "security group", list |-> "describe_security_groups",
       arg |-> EcsSgName, create |-> "create_security_group",
       fn |-> "get_single_security_group"],
      [kind |-> "security group", list |-> "describe_security_groups",
       arg |-> Ec2SgName, create |-> "create_security_group",
       fn |-> "get_single_security_group"],
      [kind |-> "role", list |-> "list_roles", arg |-> TaskRoleName,
       create |-> "create_role", fn |-> "ensure_task_role"],
      [kind |-> "role", list |-> "list_roles", arg |-> Ec2RoleName,
       create |-> "create_role", fn |-> "ensure_ec2_role"] }

UniqueKinds == {"security group", "role"}

AmbiguousResource == {MultipleSgs, MultipleRoles}

\* Entry i of the history L is the listing request of an ensure of kind k.
Lists(L, i, k) == IsReq(L[i], k.list) /\ L[i].arg = k.arg

\* Where the ensure that listed at i ended: at its return, at the end of the
\* invocation, or not yet (Len(L) + 1).
EndOf(L, i, k) ==
    LET ends == {j \in (i + 1)..Len(L) :
                    \/ L[j].ev = "ret" /\ L[j].op = k.fn
                    \/ L[j].ev \in {"raise", "exit"}}
    IN  IF ends = {} THEN Len(L) + 1
        ELSE CHOOSE j \in ends : \A o \in ends : j <= o

Returned(L, i, k) == EndOf(L, i, k) <= Len(L) /\ L[EndOf(L, i, k)].ev = "ret"

\* The create requests of the ensure that listed at i.
Creates(L, i, k) ==
    {j \in (i + 1)..(EndOf(L, i, k) - 1) : IsReq(L[j], k.create) /\ L[j].arg = k.arg}

\* The requests of the ensure that listed at i, after the listing.
RequestsAfter(L, i, k) ==
    {j \in (i + 1)..(EndOf(L, i, k) - 1) : L[j].ev = "req"}

\* The ensure that listed at i raised the error for an ambiguous name at once.
FailedAmbiguous(L, i) ==
    /\ i < Len(L)
    /\ L[i + 1].ev = "raise"
    /\ L[i + 1].op \in AmbiguousResource

\* No match: one create request by the time the ensure returns, never more.
ZeroCreatesOne(L, i, k) ==
    L[i].n = 0 =>
        /\ Cardinality(Creates(L, i, k)) <= 1
        /\ Returned(L, i, k) => Cardinality(Creates(L, i, k)) = 1

\* One match: no create request, and what is returned is the existing one.
OneCreatesNone(L, i, k) ==
    L[i].n = 1 =>
        /\ Creates(L, i, k) = {}
        /\ Returned(L, i, k)
        /\ LET val == L[EndOf(L, i, k)].val
           IN  /\ k.kind = "security group" => securityGroups[val].GroupName = k.arg
               /\ k.kind = "role" => roles[val].RoleName = k.arg
               /\ k.kind = "task definition" =>
                     \E td \in TaskDefsOf(TaskFamily) : TaskDefArn(td) = val

\* Two or more matches: the error, and nothing created.
ManyFail(L, i, k) ==
    L[i].n >= 2 => FailedAmbiguous(L, i) /\ Creates(L, i, k) = {}

\* Two or more matches: nothing created, nothing raised.
ManyTrusted(L, i, k) ==
    L[i].n >= 2 => Returned(L, i, k) /\ RequestsAfter(L, i, k) = {}

\* C1 as stated: for every resource kind, no match gives exactly one create
\* request, one match gives none and the existing resource, and two or more
\* matches give the AmbiguousResource error (a RuntimeError) and no create.
C1_AsStated ==
    \A p \in Procs : \A k \in ResourceKinds : \A i \in 1..Len(LogOf(p)) :
        Lists(LogOf(p), i, k) =>
            /\ ZeroCreatesOne(LogOf(p), i, k)
            /\ OneCreatesNone(LogOf(p), i, k)
            /\ ManyFail(LogOf(p), i, k)

\* C1 amended: no match gives exactly one create request by the time the
\* ensure returns; one match gives none and the existing resource; two or more
\* matches give the RuntimeError and no create for security groups and roles,
\* and for clusters, log groups and task definitions no request at all: the
\* ensure returns as if there were one.
C1_Reconcile ==
    \A p \in Procs : \A k \in ResourceKinds : \A i \in 1..Len(LogOf(p)) :
        Lists(LogOf(p), i, k) =>
            /\ ZeroCreatesOne(LogOf(p), i, k)
            /\ OneCreatesNone(LogOf(p), i, k)
            /\ k.kind \in UniqueKinds => ManyFail(LogOf(p), i, k)
            /\ k.kind \notin UniqueKinds => ManyTrusted(LogOf(p), i, k)

\* ensure_cluster returned from an account with two or more clusters of the
\* name, and a role was found ambiguous in another run.
C1_Witness ==
    \E p \in Procs : \E i \in 1..Len(LogOf(p)) :
        /\ IsReq(LogOf(p)[i], "describe_clusters")
        /\ LogOf(p)[i].n >= 2
        /\ procs[p].status = "done"

----------------------------------------------------------------------------
(* C9: ensure_task                                                         *)

ListsDefs(L, i) == IsReq(L[i], "list_task_definitions")

TaskDefKind == CHOOSE k \in ResourceKinds : k.kind = "task definition"

\* The newest definition of the family.
NewestDef(family) ==
    CHOOSE td \in TaskDefsOf(family) : \A o \in TaskDefsOf(family) :
        o.revision <= td.revision

\* A revision is registered only when no definition of exactly the family
\* exists, and is registered by the time ensure_task returns when none does.
RegistersIffNone(L, i) ==
    /\ Creates(L, i, TaskDefKind) # {} => L[i].n = 0
    /\ ZeroCreatesOne(L, i, TaskDefKind)

\* With a definition of the family, ensure_task issues no further request: it
\* registers nothing and reads nothing of the definitions it found.
TrustsExisting(L, i) ==
    L[i].n >= 1 => Returned(L, i, TaskDefKind) /\ RequestsAfter(L, i, TaskDefKind) = {}

\* C9 as stated: ensure_task registers a revision if and only if no definition
\* of exactly the family is listed; with one or more it registers nothing,
\* validates nothing and returns the first ARN of the listing sorted DESC.
C9_AsStated ==
    \A p \in Procs : \A i \in 1..Len(LogOf(p)) :
        ListsDefs(LogOf(p), i) =>
            /\ RegistersIffNone(LogOf(p), i)
            /\ TrustsExisting(LogOf(p), i)
            /\ LogOf(p)[i].n >= 1 =>
                  LogOf(p)[EndOf(LogOf(p), i, TaskDefKind)].val =
                     ListTaskDefinitions(TaskFamily)[1]

\* C9 amended: as stated, but what ensure_task returns is the first ARN of
\* exactly the family in the listing sorted DESC, the family's newest
\* revision; a family that shares the prefix is listed before it.
C9_EnsureTask ==
    \A p \in Procs : \A i \in 1..Len(LogOf(p)) :
        ListsDefs(LogOf(p), i) =>
            /\ RegistersIffNone(LogOf(p), i)
            /\ TrustsExisting(LogOf(p), i)
            /\ LogOf(p)[i].n >= 1 =>
                  LogOf(p)[EndOf(LogOf(p), i, TaskDefKind)].val =
                     TaskDefArn(NewestDef(TaskFamily))

\* ensure_task returned a definition of the family from an account that also
\* holds the family sharing the prefix, whose stale values it left alone.
C9_Witness ==
    \E p \in Procs : \E i \in 1..Len(LogOf(p)) :
        /\ ListsDefs(LogOf(p), i)
        /\ LogOf(p)[i].n >= 2
        /\ procs[p].status = "done"
        /\ procs[p].def_arn = TaskDefArn(NewestDef(TaskFamily))
        /\ TaskDefsOf(OtherFamily) # {}
        /\ \A td \in TaskDefsOf(TaskFamily) : td.cpu = "256"

----------------------------------------------------------------------------
(* C2: ensure-configuration, again                                         *)

CmdStarts(L) == {i \in 1..Len(L) : L[i].ev = "cmd"}

\* The start of the command that entry i of the history belongs to.
CmdOf(L, i) == CHOOSE c \in CmdStarts(L) : c <= i /\ \A o \in CmdStarts(L) : o <= i => o <= c

\* The invocation p is running is ensure-configuration, straight after an
\* ensure-configuration that succeeded.
Repeating(p) ==
    LET L == LogOf(p)
        c == CmdOf(L, Len(L))
    IN  /\ procs[p].status = "run"
        /\ procs[p].cmd = "ensure-configuration"
        /\ c > 1
        /\ L[c - 1] = Exit("ok")
        /\ L[CmdOf(L, c - 1)].op = "ensure-configuration"

CreateRequests ==
    {"create_cluster", "register_task_definition", "create_security_group",
     "create_role", "create_log_group"}

RuleRequests ==
    {"revoke_ingress", "revoke_egress", "authorize_egress", "authorize_ingress"}

\* The requests p issues in this step.
Issued(p) ==
    LET L == procs'[p].log
    IN  {L[j].op : j \in {k \in (Len(LogOf(p)) + 1)..Len(L) : L[k].ev = "req"}}

SameResources ==
    /\ clusters' = clusters
    /\ taskDefs' = taskDefs
    /\ logGroups' = logGroups
    /\ roles' = roles
    /\ [i \in DOMAIN securityGroups' |-> securityGroups'[i].GroupName]
          = [i \in DOMAIN securityGroups |-> securityGroups[i].GroupName]

\* C2: a second ensure-configuration straight after one that succeeded issues
\* no create request, leaves the clusters, task definitions, security groups,
\* roles and log groups as they are, and changes the account only by the
\* requests that revoke and authorize security group rules.
C2_Idempotent ==
    [][\A p \in Procs :
          Repeating(p) /\ procs'[p] # procs[p] =>
              /\ Issued(p) \cap (CreateRequests \cup {"attach_role_policy"}) = {}
              /\ SameResources
              /\ provider' # provider => Issued(p) \subseteq RuleRequests /\ Issued(p) # {}]_vars

\* A second ensure-configuration succeeded after a first one that had to
\* create the cluster, the security groups and the roles.
C2_Witness ==
    \E p \in Procs :
        LET L == LogOf(p)
        IN  /\ procs[p].status = "done"
            /\ Cardinality(CmdStarts(L)) = 2
            /\ \A c \in CmdStarts(L) : c > 1 => L[c - 1] = Exit("ok")
            /\ \E i \in 1..Len(L) : IsReq(L[i], "create_cluster")
            /\ \E i \in 1..Len(L) : IsReq(L[i], "create_security_group")
            /\ \E i \in 1..Len(L) : IsReq(L[i], "register_task_definition")

----------------------------------------------------------------------------
(* C3, C5, C10: the rules of a security group                              *)

AllowAll ==
    [FromPort |-> -1, IpProtocol |-> "-1",
     IpRanges |-> {[addr |-> "0.0.0.0", mask |-> 0]},
     Ipv6Ranges |-> {[addr |-> "::", mask |-> 0]}, ToPort |-> -1]

Tcp8080From(ip) ==
    [FromPort |-> 8080, IpProtocol |-> "tcp", IpRanges |-> {[addr |-> ip, mask |-> 32]},
     Ipv6Ranges |-> {}, ToPort |-> 8080]

Tcp80FromAny ==
    [FromPort |-> 80, IpProtocol |-> "tcp",
     IpRanges |-> {[addr |-> "0.0.0.0", mask |-> 0]},
     Ipv6Ranges |-> {[addr |-> "::", mask |-> 0]}, ToPort |-> 80]

\* The answer of the last IP lookup before entry j of the history.
LookupBefore(L, j) ==
    LET asked == {i \in 1..j : IsReq(L[i], "get_ip")}
    IN  L[CHOOSE i \in asked : \A o \in asked : o <= i].arg

GressReturns(L) ==
    {j \in 1..Len(L) : L[j].ev = "ret" /\ L[j].op \in GressCmds}

\* The rules an application that returned at j must have left.
RulesAsFixed(L, j) ==
    /\ L[j].val.egress = {AllowAll}
    /\ L[j].op = "ensure_ecs_gress" =>
          L[j].val.ingress = {Tcp8080From(LookupBefore(L, j))}
    /\ L[j].op = "ensure_ec2_gress" => L[j].val.ingress = {Tcp80FromAny}

SameCaller(L, i, j) ==
    L[i].op = "ensure_ecs_gress" => LookupBefore(L, i) = LookupBefore(L, j)

\* C3: whatever the rules were, ensure_ecs_gress leaves the egress rules
\* {allow all} and the ingress rules {TCP 8080 from <caller IP>/32},
\* ensure_ec2_gress leaves {allow all} and {TCP 80 from anywhere}, and a second
\* application of the same variant (same caller IP) leaves what the first left.
C3_FixedRules ==
    \A p \in Procs :
        LET L == LogOf(p)
        IN  /\ \A j \in GressReturns(L) : RulesAsFixed(L, j)
            /\ \A i \in GressReturns(L) : \A j \in GressReturns(L) :
                  (i < j /\ L[i].op = L[j].op /\ L[i].val.sg_id = L[j].val.sg_id
                     /\ SameCaller(L, i, j))
                  => /\ L[j].val.ingress = L[i].val.ingress
                     /\ L[j].val.egress = L[i].val.egress
            /\ (procs[p].status = "done" /\ procs[p].cmd \in GressCmds) =>
                  /\ L[Len(L) - 1].val.ingress =
                        securityGroups[procs[p].sg_id].IpPermissions
                  /\ L[Len(L) - 1].val.egress =
                        securityGroups[procs[p].sg_id].IpPermissionsEgress

\* ensure_ecs_gress was applied twice with the same caller IP to a group that
\* had other rules.
C3_Witness ==
    \E p \in Procs :
        LET L == LogOf(p)
        IN  /\ procs[p].status = "done"
            /\ Cardinality({j \in GressReturns(L) : L[j].op = "ensure_ecs_gress"}) = 2
            /\ \A i \in GressReturns(L) : \A j \in GressReturns(L) : SameCaller(L, i, j)
            /\ L[1].val.ip_permissions = {ssh_perm}
            /\ L[1].val.ip_permissions_egress = {default_egress}

\* The invocation of p ended when the IP lookup failed.
LookupFailed(p) ==
    /\ procs[p].status = "failed"
    /\ procs[p].err = ExternalLookupFailure

\* The requests of the command that entry i of the history belongs to.
RequestsOfCmd(L, i) ==
    {L[j].op : j \in {k \in CmdOf(L, i)..Len(L) :
                         L[k].ev = "req" /\ CmdOf(L, k) = CmdOf(L, i)}}

\* C5 as stated: when the IP lookup of ensure_ecs_gress fails, no request that
\* changes rules was applied, and the ingress and egress rules of the group are
\* the ones it had before the call.
C5_AsStated ==
    \A p \in Procs :
        LookupFailed(p) =>
            LET L == LogOf(p)
                before == L[CmdOf(L, Len(L))].val
            IN  /\ RequestsOfCmd(L, Len(L)) \cap RuleRequests = {}
                /\ securityGroups[procs[p].sg_id].IpPermissions = before.ip_permissions
                /\ securityGroups[procs[p].sg_id].IpPermissionsEgress =
                      before.ip_permissions_egress

\* In the invocation p ended last, authorize_ingress failed at entry j of the
\* history, after authorize_egress had succeeded.
IngressFailedAt(p, j) ==
    LET L == LogOf(p)
    IN  /\ procs[p].status = "failed"
        /\ CmdOf(L, j) = CmdOf(L, Len(L))
        /\ IsReq(L[j], "authorize_ingress")
        /\ L[j + 1].ev = "raise"
        /\ IsReq(L[j - 1], "authorize_egress")

\* C10: when the egress authorization succeeds and the ingress authorization
\* fails, the invocation ends with that error, no further request is issued,
\* and the group is left with the allow-all egress rule and no ingress rule.
C10_NoCompensation ==
    \A p \in Procs : \A j \in 2..(Len(LogOf(p)) - 1) :
        IngressFailedAt(p, j) =>
            /\ procs[p].err = LogOf(p)[j + 1].op
            /\ LogOf(p)[j + 2] = Exit(LogOf(p)[j + 1].op)
            /\ Len(LogOf(p)) = j + 2
            /\ ~ ENABLED Gress(p)
            /\ securityGroups[procs[p].sg_id].IpPermissions = {}
            /\ securityGroups[procs[p].sg_id].IpPermissionsEgress = {AllowAll}

\* authorize_ingress failed on a group that had ingress rules before.
C10_Witness ==
    \E p \in Procs : \E j \in 2..(Len(LogOf(p)) - 1) :
        /\ IngressFailedAt(p, j)
        /\ LogOf(p)[CmdOf(LogOf(p), j)].val.ip_permissions # {}

----------------------------------------------------------------------------
(* impl_start_task                                                         *)

\* Entry e of a history is an event of kind ev about op.
Is(e, ev, op) == e.ev = ev /\ e.op = op

\* The calls of impl_start_task in the history L.
StartCalls(L) == {c \in 1..Len(L) : Is(L[c], "call", "impl_start_task")}

\* Where the call at c ended: at its return, at a raise, or not yet
\* (Len(L) + 1).
CallEnd(L, c) ==
    LET ends == {j \in (c + 1)..Len(L) :
                    \/ L[j].ev = "ret" /\ L[j].op = "impl_start_task"
                    \/ L[j].ev = "raise"}
    IN  IF ends = {} THEN Len(L) + 1
        ELSE CHOOSE j \in ends : \A o \in ends : j <= o

\* The run-task requests of the call at c.
RunTasks(L, c) == {r \in (c + 1)..(CallEnd(L, c) - 1) : IsReq(L[r], "run_task")}

\* The provider answered the run-task request at r with a list of tasks.
Answered(L, r) == L[r].n >= 0

\* Configuration was reconciled within the call at c before entry r: the
\* call's impl_ensure_configuration returned, then the security group was
\* found and a subnet selected, and nothing was raised.
ReconciledBefore(L, c, r) ==
    /\ \E e \in (c + 1)..(r - 1) :
          /\ Is(L[e], "ret", "impl_ensure_configuration")
          /\ \E g \in (e + 1)..(r - 1) :
                /\ L[g].ev = "ret" /\ L[g].op = "get_single_security_group"
                /\ \E n \in (g + 1)..(r - 1) :
                      IsReq(L[n], "describe_subnets") /\ L[n].n > 0
    /\ \A j \in (c + 1)..(r - 1) : L[j].ev # "raise"

\* What follows the run-task request at r is decided by the number of tasks
\* in its response.
OutcomeByCount(L, r) ==
    /\ L[r].n = 0 => Is(L[r + 1], "raise", StartFailure)
    /\ L[r].n > 1 => Is(L[r + 1], "raise", MultipleTasksError)
    /\ L[r].n = 1 => /\ Is(L[r + 1], "ret", "impl_start_task")
                    /\ L[r + 1].val = L[r].val[1].taskArn

\* C4: a call of impl_start_task issues at most one run-task request, and
\* that only after the call's configuration reconciliation has succeeded; a
\* call that ended without a run-task request ended by the error of a failed
\* reconciliation, and every other call that ended issued exactly one.  A
\* response with zero tasks raises StartFailure, one with more than one task
\* raises MultipleTasksError, and one with exactly one task makes the call
\* return that task's ARN.
C4_StartTask ==
    \A p \in Procs :
       LET L == LogOf(p)
       IN  \A c \in StartCalls(L) :
              /\ Cardinality(RunTasks(L, c)) <= 1
              /\ \A r \in RunTasks(L, c) :
                    /\ ReconciledBefore(L, c, r)
                    /\ Answered(L, r) => OutcomeByCount(L, r)
              /\ CallEnd(L, c) <= Len(L) =>
                    IF L[CallEnd(L, c)].ev = "ret" \/ ReconciledBefore(L, c, CallEnd(L, c))
                    THEN Cardinality(RunTasks(L, c)) = 1
                    ELSE /\ RunTasks(L, c) = {}
                         /\ L[CallEnd(L, c)].op \notin {StartFailure, MultipleTasksError}

\* On an account that had no cluster, a call reconciled the configuration,
\* was answered with one task and returned its ARN.
C4_Witness ==
    \E p \in Procs :
       LET L == LogOf(p)
       IN  \E c \in StartCalls(L) :
              /\ \E i \in 1..(c - 1) : IsReq(L[i], "create_cluster")
              /\ \E r \in RunTasks(L, c) :
                    /\ ReconciledBefore(L, c, r)
                    /\ L[r].n = 1
                    /\ Is(L[r + 1], "ret", "impl_start_task")
                    /\ L[r + 1].val = tasks[Len(tasks)].taskArn

----------------------------------------------------------------------------
(* impl_get_task_ip                                                        *)

\* Python's None, and the addresses that are no address.
None == "None"
NoAddress == {None, ""}

\* The invocations of get-container-ip in the history L.
IpCmds(L) == {c \in 1..Len(L) : Is(L[c], "cmd", "get-container-ip")}

\* Where the invocation started at c ended, or Len(L) + 1.
ExitOf(L, c) ==
    LET ends == {j \in (c + 1)..Len(L) : L[j].ev = "exit"}
    IN  IF ends = {} THEN Len(L) + 1
        ELSE CHOOSE j \in ends : \A o \in ends : j <= o

\* What impl_get_task_ip returned in the invocation started at c.
IpReturns(L, c) ==
    {j \in (c + 1)..(ExitOf(L, c) - 1) : Is(L[j], "ret", "impl_get_task_ip")}

\* The tasks of the cluster with the ARN given.
TasksWithArn(arn) == {i \in 1..Len(tasks) : tasks[i].taskArn = arn}

\* The positions of the task's ElasticNetworkInterface attachments.
EniPositions(t) ==
    {i \in 1..Len(t.attachments) : t.attachments[i].type = "ElasticNetworkInterface"}

\* The task's first ElasticNetworkInterface attachment.
FirstEni(t) ==
    t.attachments[CHOOSE i \in EniPositions(t) : \A o \in EniPositions(t) : i <= o]

\* The interface ids the attachment names.
InterfaceIds(a) ==
    {a.details[i].value : i \in {j \in 1..Len(a.details) :
                                    a.details[j].name = "networkInterfaceId"}}

\* The public IPs associated with the interface of the id given.
PublicIps(id) ==
    {nics[i].Association.PublicIp :
        i \in {j \in 1..Len(nics) :
                  /\ nics[j].NetworkInterfaceId = id
                  /\ "Association" \in DOMAIN nics[j]
                  /\ "PublicIp" \in DOMAIN nics[j].Association}}

\* The public IPs of the interface of the task's first network-interface
\* attachment.
AddressesOf(arn) ==
    UNION { IF EniPositions(tasks[i]) = {} THEN {}
            ELSE UNION {PublicIps(id) : id \in InterfaceIds(FirstEni(tasks[i]))} :
            i \in TasksWithArn(arn) }

\* C8: impl_get_task_ip never returns None or an empty address.  What it
\* returns is the public IP associated with the interface of the task's first
\* ElasticNetworkInterface attachment; when the task has no such attachment,
\* or that interface has no associated public IP, the invocation ends with an
\* error and returns nothing.
C8_TaskIp ==
    \A p \in Procs :
       LET L == LogOf(p)
       IN  \A c \in IpCmds(L) :
              LET arn == L[c].val.task
              IN  /\ \A j \in IpReturns(L, c) :
                        /\ L[j].val \notin NoAddress
                        /\ L[j].val \in AddressesOf(arn)
                  /\ (ExitOf(L, c) <= Len(L) /\ AddressesOf(arn) = {}) =>
                        /\ IpReturns(L, c) = {}
                        /\ L[ExitOf(L, c)].op # "ok"
                        /\ L[ExitOf(L, c) - 1].ev = "raise"
                  /\ (ExitOf(L, c) <= Len(L) /\ AddressesOf(arn) # {}) =>
                        /\ Cardinality(IpReturns(L, c)) = 1
                        /\ L[ExitOf(L, c)].op = "ok"

\* One invocation failed for a task whose first interface has no associated
\* public IP although a later attachment's interface has one, and another
\* failed for a task without a network-interface attachment.
C8_Witness ==
    \E p \in Procs :
       LET L == LogOf(p)
       IN  /\ Len(tasks) = 1
           /\ Len(tasks[1].attachments) = 2
           /\ EniPositions(tasks[1]) = {1, 2}
           /\ InterfaceIds(tasks[1].attachments[1]) = {"eni-2"}
           /\ InterfaceIds(tasks[1].attachments[2]) = {"eni-1"}
           /\ \E c \in IpCmds(L) :
                 /\ L[c].val.task = 1
                 /\ Is(L[ExitOf(L, c) - 1], "raise", "KeyError")
                 /\ IsReq(L[ExitOf(L, c) - 2], "describe_network_interfaces")

----------------------------------------------------------------------------
(* upload-model-file, download-model-file                                  *)

\* The base name of a path: what follows its last "/", all of it without one.
BaseNameOf(path) ==
    LET slashes == {i \in 1..Len(path) : path[i] = "/"}
        last == IF slashes = {} THEN 0
                ELSE CHOOSE i \in slashes : \A o \in slashes : o <= i
    IN  [i \in 1..(Len(path) - last) |-> path[last + i]]

\* The key of a base name: the fixed prefix, then the base name.
KeyOf(base) ==
    << "a", "x", "o", "n", "-", "u", "p", "l", "o", "a", "d", "e", "d", "-",
       "t", "r", "a", "i", "n", "e", "d", "-", "m", "o", "d", "e", "l", "s", "/" >> \o base

\* The uploads and the downloads that succeeded, in the history L.
Uploads(L) == {i \in 1..Len(L) : IsReq(L[i], "upload_file") /\ L[i].n = 0}
Downloads(L) == {i \in 1..Len(L) : IsReq(L[i], "download_file") /\ L[i].n = 0}

\* The paths of the uploads at i and j differ and share a base name.
Collide(L, i, j) ==
    /\ L[i].val.path # L[j].val.path
    /\ BaseNameOf(L[i].val.path) = BaseNameOf(L[j].val.path)

\* No upload of the base name of entry i lies strictly between i and j.
NoUploadBetween(L, i, j) ==
    \A u \in Uploads(L) :
       (i < u /\ u < j) => BaseNameOf(L[u].val.path) # BaseNameOf(L[i].val.path)

\* C7: the key of an upload and of a download is the fixed prefix followed
\* by the base name of the local path.  A download to a path with the base
\* name of the latest upload of that name reads the content that was
\* uploaded; two uploads of different paths with one base name write one
\* key, and the object of that key is then the later upload's content.
C7_RemoteKey ==
    \A p \in Procs :
       LET L == LogOf(p)
       IN  /\ \A i \in Uploads(L) \cup Downloads(L) :
                 L[i].val.key = KeyOf(BaseNameOf(L[i].val.path))
           /\ \A i \in Uploads(L), j \in Downloads(L) :
                 ( /\ i < j
                   /\ BaseNameOf(L[i].val.path) = BaseNameOf(L[j].val.path)
                   /\ NoUploadBetween(L, i, j) ) =>
                    L[j].val.body = L[i].val.body
           /\ \A i \in Uploads(L), j \in Uploads(L) :
                 (i < j /\ Collide(L, i, j)) =>
                    /\ L[j].val.key = L[i].val.key
                    /\ NoUploadBetween(L, j, Len(L) + 1) =>
                          bucket[L[i].val.key] = L[j].val.body

\* Two different paths with one base name were uploaded, with different
\* content, and the object is the second upload's content.
C7_Witness ==
    \E p \in Procs :
       LET L == LogOf(p)
       IN  \E i \in Uploads(L), j \in Uploads(L) :
              /\ i < j
              /\ Collide(L, i, j)
              /\ L[i].val.body # L[j].val.body
              /\ bucket[L[i].val.key] = L[j].val.body

----------------------------------------------------------------------------
(* Concurrent invocations                                                  *)

\* The kinds whose name must be unique, of the names the invocations ensure.
RacedKinds == {k \in ResourceKinds : k.kind \in UniqueKinds}

\* The resources of kind k in the account.
Existing(k) ==
    IF k.kind = "role" THEN RolesNamed(k.arg) ELSE SecurityGroupsNamed(k.arg)

\* Process p listed kind k, saw none, and created one.
CreatedAfterNone(p, k) ==
    \E i \in 1..Len(LogOf(p)) :
       /\ Lists(LogOf(p), i, k)
       /\ LogOf(p)[i].n = 0
       /\ Creates(LogOf(p), i, k) # {}

\* Process p listed kind k, saw two, and failed with the error for an
\* ambiguous name.
FailedOnTwo(p, k) ==
    \E i \in 1..Len(LogOf(p)) :
       /\ Lists(LogOf(p), i, k)
       /\ LogOf(p)[i].n = 2
       /\ FailedAmbiguous(LogOf(p), i)

\* C6: an invocation creates a security group or a role only after it listed
\* none of the name, whatever the other invocation did since; so two
\* invocations can leave two resources of one name.  An invocation that lists
\* two or more of a name raises the error for an ambiguous name as its next
\* step and issues no further request: it creates no third resource and
\* returns none of the existing ones.
C6_Race ==
    /\ \A k \in RacedKinds : Existing(k) <= Cardinality(Procs)
    /\ \A p \in Procs :
          LET L == LogOf(p)
          IN  \A k \in RacedKinds : \A i \in 1..Len(L) :
                 Lists(L, i, k) =>
                    /\ Creates(L, i, k) # {} => L[i].n = 0
                    /\ Cardinality(Creates(L, i, k)) <= 1
                    /\ L[i].n >= 2 =>
                          /\ L[i + 1].ev = "raise"
                          /\ L[i + 1].op \in AmbiguousResource
                          /\ ~ Returned(L, i, k)
                          /\ RequestsAfter(L, i, k) = {}

\* Both invocations listed none and created one, two resources of the name
\* exist, and a later invocation failed on them.
C6_Witness ==
    \E k \in RacedKinds :
       /\ Existing(k) = 2
       /\ \A p \in Procs : CreatedAfterNone(p, k)
       /\ \E p \in Procs : FailedOnTwo(p, k)

----------------------------------------------------------------------------
(* start-task and start-axon: the order of the steps                       *)

\* The invocations of start-task and start-axon in the history L.
LifecycleStarts(L) ==
    {c \in 1..Len(L) : L[c].ev = "cmd" /\ L[c].op \in {"start-task", "start-axon"}}

\* The entries of the invocation started at c.
Within(L, c) == (c + 1)..(IF ExitOf(L, c) <= Len(L) THEN ExitOf(L, c) ELSE Len(L))

\* The entries of the invocation started at c that are event ev about op.
Events(L, c, ev, op) == {j \in Within(L, c) : Is(L[j], ev, op)}

\* Some entry of A lies before entry j.
Earlier(A, j) == \E i \in A : i < j

\* The ARNs impl_start_task returned before entry j of the invocation.
StartedBefore(L, c, j) ==
    {L[t].val : t \in {i \in Events(L, c, "ret", "impl_start_task") : i < j}}

\* The invocation started at c waits for the task rather than stopping it.
Waits(L, c) == L[c].op = "start-axon" \/ ~ L[c].val.stop_after

\* Every step of the invocation started at c follows the success of the step
\* before it: reconcile, run the task, act on the ARN returned.
InOrder(L, c) ==
    /\ \A k \in Events(L, c, "call", "impl_start_task") :
          Earlier(Events(L, c, "ret", "impl_ensure_configuration"), k)
    /\ \A r \in Events(L, c, "req", "run_task") :
          Earlier(Events(L, c, "call", "impl_start_task"), r)
    /\ \A j \in Events(L, c, "req", "stop_task") \cup
                Events(L, c, "req", "wait_tasks_running") :
          StartedBefore(L, c, j) = {L[j].n}
    /\ \A j \in Within(L, c) :
          L[j].ev = "raise" => j + 1 = ExitOf(L, c) /\ L[j + 1].op = L[j].op

\* With --stop-after the task is stopped and never waited for; without it,
\* and in start-axon, it is waited for and never stopped.
StopOrWait(L, c) ==
    /\ Waits(L, c) => Events(L, c, "req", "stop_task") = {}
    /\ ~ Waits(L, c) => Events(L, c, "req", "wait_tasks_running") = {}
    /\ (ExitOf(L, c) <= Len(L) /\ L[ExitOf(L, c)].op = "ok") =>
          /\ Cardinality(Events(L, c, "ret", "impl_start_task")) = 1
          /\ Cardinality(Events(L, c, "req", "stop_task")) =
                (IF Waits(L, c) THEN 0 ELSE 1)
          /\ Cardinality(Events(L, c, "ret", "wait_for_task_to_start")) =
                (IF Waits(L, c) THEN 1 ELSE 0)

\* The browser is opened by start-axon alone, once, after the wait returned
\* and impl_get_task_ip returned the address, and at that address; the
\* address is looked up only after the wait returned.
BrowserLast(L, c) ==
    /\ L[c].op = "start-task" =>
          /\ Events(L, c, "req", "webbrowser_open") = {}
          /\ Events(L, c, "req", "describe_tasks") = {}
    /\ \A d \in Events(L, c, "req", "describe_tasks") :
          Earlier(Events(L, c, "ret", "wait_for_task_to_start"), d)
    /\ \A b \in Events(L, c, "req", "webbrowser_open") :
          /\ \E g \in Events(L, c, "ret", "impl_get_task_ip") :
                /\ g < b
                /\ L[b].val = << "http://", L[g].val, ":8080/axon/dataset" >>
                /\ Earlier(Events(L, c, "ret", "wait_for_task_to_start"), g)
          /\ \A j \in Within(L, c) : (j > b) => L[j].ev # "req"
    /\ (L[c].op = "start-axon" /\ ExitOf(L, c) <= Len(L)) =>
          Cardinality(Events(L, c, "req", "webbrowser_open")) =
             (IF L[ExitOf(L, c)].op = "ok" THEN 1 ELSE 0)

\* C11: in start-task and start-axon every step runs only after the step
\* before it succeeded, in the order reconcile, run the task, act on the ARN
\* returned, and an error ends the invocation at once.  start-task with
\* --stop-after stops the task of that ARN and never waits; without the flag
\* it waits and never stops.  start-axon opens the browser only after the
\* wait returned and the task's public IP was resolved.
C11_Lifecycle ==
    \A p \in Procs :
       LET L == LogOf(p)
       IN  \A c \in LifecycleStarts(L) :
              /\ InOrder(L, c)
              /\ StopOrWait(L, c)
              /\ BrowserLast(L, c)

\* start-task --stop-after stopped the task it started, and start-axon then
\* waited for its task and opened the browser at the task's address.
C11_Witness ==
    \E p \in Procs :
       LET L == LogOf(p)
       IN  \E c1 \in LifecycleStarts(L), c2 \in LifecycleStarts(L) :
              /\ c1 < c2
              /\ L[c1].op = "start-task" /\ L[c1].val.stop_after
              /\ Events(L, c1, "req", "stop_task") # {}
              /\ L[c2].op = "start-axon"
              /\ Events(L, c2, "req", "webbrowser_open") # {}
              /\ L[ExitOf(L, c2)].op = "ok"

----------------------------------------------------------------------------
(* The log group of the task family                                        *)

\* The requests that list or create a log group.
LogGroupRequests == {"describe_log_groups", "create_log_group"}

\* The entries of the invocation that entry i belongs to.
InvocationOf(L, i) == Within(L, CmdOf(L, i))

\* The latest listing of the definitions before entry j, or 0.
ListingBefore(L, j) ==
    LET before == {i \in 1..(j - 1) : ListsDefs(L, i)}
    IN  IF before = {} THEN 0 ELSE CHOOSE i \in before : \A o \in before : o <= i

\* ensure_task listed a definition of the family at i: the invocation issues
\* no request about log groups.
NoLogGroupRequest(L, i) ==
    \A j \in InvocationOf(L, i) : ~ (L[j].ev = "req" /\ L[j].op \in LogGroupRequests)

\* ensure_task listed no definition at i: what it registers, it registers
\* after it listed the log groups and ensure_log_group returned.
LogGroupFirst(L, i) ==
    \A r \in InvocationOf(L, i) :
       (r > i /\ IsReq(L[r], "register_task_definition")) =>
          \E d \in (i + 1)..(r - 1), g \in (i + 1)..(r - 1) :
             /\ d < g
             /\ IsReq(L[d], "describe_log_groups")
             /\ Is(L[g], "ret", "ensure_log_group")

\* A step of p that changes the log groups is a create_log_group request that
\* follows a listing of no definition, and adds the family's log group.
CreatesLogGroup(p) ==
    LET L == procs'[p].log
        new == {j \in (Len(LogOf(p)) + 1)..Len(L) : IsReq(L[j], "create_log_group")}
    IN  /\ new # {}
        /\ \A j \in new : ListingBefore(L, j) # 0 /\ L[ListingBefore(L, j)].n = 0
        /\ logGroups' = Append(logGroups, << "/", "e", "c", "s", "/" >> \o TaskFamily)

LogGroupsOnRegisterPath ==
    \A p \in Procs :
       LET L == LogOf(p)
       IN  \A i \in 1..Len(L) :
              ListsDefs(L, i) =>
                 IF L[i].n >= 1 THEN NoLogGroupRequest(L, i) ELSE LogGroupFirst(L, i)

\* C12: the log group "/ecs/<task_family>" is reconciled only on the path
\* that registers a definition.  When ensure_task lists a definition of the
\* family, the run of ensure-configuration issues no request that lists or
\* creates a log group and leaves the log groups as they were, a missing one
\* included; when it lists none, the log group is ensured before the register
\* request.
C12_LogGroup ==
    /\ [] LogGroupsOnRegisterPath
    /\ [][logGroups' # logGroups => \E p \in Procs : CreatesLogGroup(p)]_vars

\* ensure-configuration succeeded on an account with a definition of the
\* family and without its log group, and the log group is still missing.
C12_Witness ==
    \E p \in Procs :
       LET L == LogOf(p)
       IN  /\ procs[p].status = "done"
           /\ \E i \in 1..Len(L) : ListsDefs(L, i) /\ L[i].n >= 1
           /\ LogGroupsNamed(LogGroupName(TaskFamily)) = 0

====
